---- MODULE Spec2Model ----
(***************************************************************************)
(* Validador de Etiquetas (src/Validador_Streamlit.py): the credential     *)
(* store, the divergence policy of the two scan screens, the override      *)
(* dialog and the record store, for browser sessions that each own one     *)
(* SQLite connection to the same database file.                            *)
(*                                                                         *)
(* Text is a sequence of one-character strings, so that strip(), the       *)
(* regular expression of sanitize_code and the [:10] slices are computed   *)
(* and not assumed.                                                        *)
(*                                                                         *)
(* Storage: a connection that has executed INSERT/UPDATE/DELETE without    *)
(* commit holds the database's single write lock; its rows are visible to  *)
(* itself only. A write of another connection waits busy_timeout and then  *)
(* fails with sqlite3.OperationalError.                                    *)
(***************************************************************************)
EXTENDS Integers, Sequences, FiniteSets, TLC

\* ------------------------------------------------------------ bounds
\* entries in table registros, written or being written
MaxLog == 2
\* highest id the AUTOINCREMENT key of table usuarios hands out
MaxUserId == 2
\* characters of a text handed to sanitize_code
MaxTexto == 3

\* ------------------------------------------------- program constants
FLUSH_INTERVAL == 400
CODE_LEN == 10

\* ------------------------------------------------------------- text
Min(a, b) == IF a < b THEN a ELSE b

Digits == {"0", "1", "2", "3", "4", "5", "6", "7", "8", "9"}

Upper == {"A", "B", "C", "D", "E", "F", "G", "H", "I", "J", "K", "L", "M",
          "N", "O", "P", "Q", "R", "S", "T", "U", "V", "W", "X", "Y", "Z"}

Lower == {"a", "b", "c", "d", "e", "f", "g", "h", "i", "j", "k", "l", "m",
          "n", "o", "p", "q", "r", "s", "t", "u", "v", "w", "x", "y", "z"}

\* the class [0-9A-Za-z] of sanitize_code's regular expression
Alnum == Digits \cup Upper \cup Lower

IsAlnum(c) == c \in Alnum

Whitespace == {" "}

\* code[:n]
Take(code, n) == SubSeq(code, 1, Min(n, Len(code)))

RECURSIVE LStrip(_)
LStrip(x) ==
    IF x # <<>> /\ Head(x) \in Whitespace THEN LStrip(Tail(x)) ELSE x

RECURSIVE RStrip(_)
RStrip(x) ==
    IF x # <<>> /\ x[Len(x)] \in Whitespace
    THEN RStrip(SubSeq(x, 1, Len(x) - 1))
    ELSE x

\* str.strip()
Strip(x) == RStrip(LStrip(x))

\* sanitize_code with re.sub(..., count=1): the first match only is removed
sanitize_code_count1(code, max_len) ==
    Take(IF \E i \in DOMAIN code : ~IsAlnum(code[i])
         THEN LET i == CHOOSE k \in DOMAIN code :
                           ~IsAlnum(code[k]) /\ \A j \in 1..(k - 1) : IsAlnum(code[j])
              IN  SubSeq(code, 1, i - 1) \o SubSeq(code, i + 1, Len(code))
         ELSE code,
         max_len)

\* re.sub(r'[^0-9A-Za-z]', '', code or '')[:max_len]
sanitize_code(code, max_len) == Take(SelectSeq(code, IsAlnum), max_len)

\* ------------------------------------------------------ date and time
\* the decimal digit n as a character
Chr(n) == <<"0", "1", "2", "3", "4", "5", "6", "7", "8", "9">>[n + 1]

\* n in decimal, zero-padded to two and to four digits
Pad2(n) == <<Chr((n \div 10) % 10), Chr(n % 10)>>

Pad4(n) == <<Chr((n \div 1000) % 10), Chr((n \div 100) % 10)>> \o Pad2(n)

\* the formats the program passes to strftime
FmtData == "%Y-%m-%d"

FmtDataHora == "%Y-%m-%d %H:%M:%S"

\* date.strftime and datetime.strftime for the two formats
strftime(dt, fmt) ==
    LET ymd == Pad4(dt.year) \o <<"-">> \o Pad2(dt.month) \o <<"-">> \o Pad2(dt.day) IN
    IF fmt = FmtData THEN ymd
    ELSE ymd \o <<" ">> \o Pad2(dt.hour) \o <<":">> \o Pad2(dt.minute)
             \o <<":">> \o Pad2(dt.second)

\* the code points of the characters of a formatted date
CodePoint ==
    [c \in {" ", "-", ":"} \cup Digits |->
        IF c = " " THEN 32 ELSE IF c = "-" THEN 45 ELSE IF c = ":" THEN 58
        ELSE 48 + CHOOSE n \in 0..9 : Chr(n) = c]

\* a <= b for TEXT values under SQLite's BINARY collation: memcmp over the
\* common length, then the shorter first
TextLeq(a, b) ==
    LET differ == {i \in 1..Min(Len(a), Len(b)) : a[i] # b[i]} IN
    IF differ = {} THEN Len(a) <= Len(b)
    ELSE LET k == CHOOSE i \in differ : \A j \in differ : i <= j IN
         CodePoint[a[k]] < CodePoint[b[k]]

\* datetime(year, month, day, hour, minute, second)
DateTime(y, m, d, hh, mm, ss) ==
    [year |-> y, month |-> m, day |-> d, hour |-> hh, minute |-> mm, second |-> ss]

\* date(year, month, day)
Date(y, m, d) == [year |-> y, month |-> m, day |-> d]

\* the instants the wall clock goes through, in order
Instantes ==
    <<DateTime(2026, 1, 31, 23, 59, 59),
      DateTime(2026, 2, 1, 0, 0, 0),
      DateTime(2026, 10, 9, 8, 5, 0)>>

\* ------------------------------------------------------- passwords
\* hashlib.sha256(x).hexdigest(), one-way and taken as collision free
sha256(x) == <<"sha256", x>>

\* make_hash(password, salt_hex) with the salt given; the callers that pass
\* no salt draw it from Salts (secrets.token_hex(16))
make_hash(password, salt_hex) == <<salt_hex, sha256(salt_hex \o password)>>

verify_password(password, salt_hex, hash_hex) ==
    make_hash(password, salt_hex)[2] = hash_hex

\* ------------------------------------------------------------ inputs
Sessions == {"s1", "s2"}

Roles == {"user", "supervisor", "admin"}

\* ------------------------------------------------------------- state
VARIABLES
    usuarios,      \* table usuarios (committed): set of rows
    seq_usuarios,  \* last id handed out by AUTOINCREMENT for usuarios
    committed,     \* table registros, committed rows in insertion order
    pending,       \* per session: rows inserted by its connection, not committed
    lock,          \* the connection holding the write lock, or "free"
    counter,       \* per session: DatabaseManager.counter
    snapshot,      \* per session: the transaction conn has open without the write lock
    user,          \* per session: st.session_state.user
    page,          \* per session: st.session_state.page
    dialog,        \* per session: the open dialog_divergencia and its arguments
    call,          \* per session: the registrar_dado call being executed
    volumes,       \* per session: st.session_state.volumes
    vol_count,     \* per session: st.session_state.vol_count
    ult_leitura,   \* per session: st.session_state.ult_leitura
    campos,        \* per session: the texts in "Transporte" and "Pedido" of the scan form
    agora,         \* the wall clock: what datetime.now() returns
    arquivo,       \* the database file, by columns: per table its columns and rows
    codigo,        \* a text passed through sanitize_code: input, max_len, result
    out            \* <<session, outcome>>: what the last handler displayed or did

dbVars == <<usuarios, seq_usuarios, committed, pending, lock, counter>>

uiVars == <<user, page, dialog, call, volumes, vol_count, ult_leitura, campos>>

vars == <<usuarios, seq_usuarios, committed, pending, lock, counter, snapshot,
          user, page, dialog, call, volumes, vol_count, ult_leitura, campos,
          agora, arquivo, codigo, out>>

\* conn is in autocommit mode, or inside the transaction that holds the write lock
Autocommit == [fase |-> "autocommit", registros |-> <<>>, usuarios |-> {}]

\* BEGIN was executed before a statement that failed: a transaction is open
\* and has read nothing yet
Begun == [fase |-> "begin", registros |-> <<>>, usuarios |-> {}]

\* the open transaction has read: until the commit conn reads the tables as
\* they were committed at its first SELECT
Snapshot(rows, users) == [fase |-> "snapshot", registros |-> rows, usuarios |-> users]

\* st.session_state.user = None
NoUser == [id |-> 0, uid |-> <<>>, role |-> "none"]

\* no dialog open
NoDialog == [transporte |-> <<>>, pedido |-> <<>>, origem |-> "none"]

\* no registrar_dado call in progress
NoCall == [data_hora |-> <<>>,
           usuario |-> <<>>, tipo_tela |-> "none", transporte |-> <<>>,
           pedido |-> <<>>, divergencia |-> FALSE,
           supervisor_liberou |-> <<>>, motivo_divergencia |-> <<>>]

\* both fields of the scan form empty: the widgets scan_t and scan_p, or
\* varios_t and varios_p, have no state
Vazio == <<<<>>, <<>>>>

\* every session before its first script run, the record store empty
InitSessions ==
    /\ committed = <<>>
    /\ pending = [s \in Sessions |-> <<>>]
    /\ lock = "free"
    /\ counter = [s \in Sessions |-> 0]
    /\ snapshot = [s \in Sessions |-> Autocommit]
    /\ user = [s \in Sessions |-> NoUser]
    /\ page = [s \in Sessions |-> "login"]
    /\ dialog = [s \in Sessions |-> NoDialog]
    /\ call = [s \in Sessions |-> NoCall]
    /\ volumes = [s \in Sessions |-> <<>>]
    /\ vol_count = [s \in Sessions |-> 0]
    /\ ult_leitura = [s \in Sessions |-> <<"-">>]
    /\ campos = [s \in Sessions |-> Vazio]
    /\ agora = Instantes[1]
    /\ out = <<"none", "-">>

\* the columns of CREATE TABLE registros
ColunasRegistros ==
    {"id", "data_hora", "usuario", "tipo_tela", "transporte", "pedido",
     "divergencia", "supervisor_liberou", "motivo_divergencia"}

\* the columns of CREATE TABLE usuarios
ColunasUsuarios ==
    {"id", "uid", "nome", "role", "salt_hex", "hash_hex", "ativo", "criado_em"}

\* the file has no such table
NoTable == [cols |-> {}, rows |-> <<>>]

\* a table CREATE TABLE has just created
Criada(cols) == [cols |-> cols, rows |-> <<>>]

\* the file with both tables in the schema of _connect, no rows
Atual == [registros |-> Criada(ColunasRegistros), usuarios |-> Criada(ColunasUsuarios)]

\* sanitize_code has not been called
NoCodigo == [code |-> <<>>, max_len |-> 0, saida |-> <<>>, n |-> 0]

\* first run: the schema has just been created, both tables are empty
Init ==
    /\ usuarios = {}
    /\ seq_usuarios = 0
    /\ arquivo = Atual
    /\ codigo = NoCodigo
    /\ InitSessions

\* ------------------------------------------------- DatabaseManager
\* CREATE TABLE IF NOT EXISTS: a table the file has is left as it is
CreateIfNotExists(tab, cols) == IF tab = NoTable THEN Criada(cols) ELSE tab

\* ALTER TABLE ADD COLUMN col DEFAULT val: every row reads val in col
AddColumn(tab, col, val) ==
    [cols |-> tab.cols \cup {col},
     rows |-> [i \in DOMAIN tab.rows |->
                  [c \in tab.cols \cup {col} |->
                      IF c = col THEN val ELSE tab.rows[i][c]]]]

\* ALTER TABLE registros, if PRAGMA table_info does not list the column
AddIfMissing(tab, col, val) == IF col \in tab.cols THEN tab ELSE AddColumn(tab, col, val)

\* the three ALTER TABLE of _ensure_schema, which never alters usuarios
EnsureRegistros(tab) ==
    AddIfMissing(AddIfMissing(AddIfMissing(tab, "divergencia", 0),
                              "supervisor_liberou", <<>>),
                 "motivo_divergencia", <<>>)

\* the columns of idx_tp_tppd
ColunasIndice == {"tipo_tela", "transporte", "pedido"}

\* the columns of usuarios that _ensure_schema looks for
Required == {"uid", "role", "salt_hex", "hash_hex", "ativo", "criado_em"}

\* DatabaseManager(DB_PATH) in the first script run of session s: _connect.
\* CREATE INDEX raises OperationalError (no such column) on a table
\* registros without a column of the index, before anything was changed
Conectar(s) ==
    /\ \A registros \in {CreateIfNotExists(arquivo.registros, ColunasRegistros)} :
           IF ~(ColunasIndice \subseteq registros.cols)
           THEN /\ out' = <<s, "no such column">>
                /\ UNCHANGED arquivo
           ELSE /\ arquivo' =
                       [registros |-> EnsureRegistros(registros),
                        usuarios |-> CreateIfNotExists(arquivo.usuarios, ColunasUsuarios)]
                /\ out' = <<s, IF Required \subseteq arquivo'.usuarios.cols
                               THEN "db"
                               ELSE "Schema inesperado em 'usuarios'">>
    /\ UNCHANGED <<dbVars, uiVars, snapshot, agora, codigo>>

\* what the connection of session s reads from table registros
View(s) ==
    IF lock = s THEN committed \o pending[s]
    ELSE IF snapshot[s].fase = "snapshot" THEN snapshot[s].registros
    ELSE committed

\* every row of table registros, committed or not
RecordLog == committed \o pending["s1"] \o pending["s2"]

\* another connection has committed since the open transaction of conn first read
Stale(s) ==
    /\ snapshot[s].fase = "snapshot"
    /\ snapshot[s].registros # committed \/ snapshot[s].usuarios # usuarios

\* the write lock is free or this connection's own, and the transaction of conn
\* does not read a database older than the committed one
CanWrite(s) == lock \in {"free", s} /\ ~Stale(s)

\* a SELECT on conn: the first one of an open transaction fixes what it reads
Ler(s) ==
    snapshot' = [snapshot EXCEPT ![s] =
                    IF @ = Begun THEN Snapshot(committed, usuarios) ELSE @]

\* sqlite3.OperationalError on INSERT, UPDATE or DELETE: the BEGIN that the
\* sqlite3 module executed first leaves a transaction open; leu tells that the
\* script run has executed a SELECT on conn before the statement
Falhar(s, leu) ==
    snapshot' = [snapshot EXCEPT ![s] =
                    IF @.fase = "snapshot" THEN @
                    ELSE IF @ = Begun /\ leu THEN Snapshot(committed, usuarios)
                    ELSE Begun]

\* conn.rollback() in the place of conn.commit()
CommitDescartando(s) ==
    /\ committed' = committed
    /\ pending' = [pending EXCEPT ![s] = <<>>]
    /\ lock' = IF lock = s THEN "free" ELSE lock
    /\ snapshot' = [snapshot EXCEPT ![s] = Autocommit]

\* conn.commit()
Commit(s) ==
    /\ committed' = committed \o pending[s]
    /\ pending' = [pending EXCEPT ![s] = <<>>]
    /\ lock' = IF lock = s THEN "free" ELSE lock
    /\ snapshot' = [snapshot EXCEPT ![s] = Autocommit]

\* what the connection of session s reads from table usuarios
Usuarios(s) == IF snapshot[s].fase = "snapshot" THEN snapshot[s].usuarios ELSE usuarios

existe_admin(s) == \E u \in Usuarios(s) : u.role = "admin" /\ u.ativo = 1

\* autenticar without the test of user["ativo"]
autenticar_sem_ativo(s, uid, senha) ==
    LET rows == {u \in Usuarios(s) : u.uid = Strip(uid)} IN
    IF rows = {} THEN NoUser
    ELSE LET row == CHOOSE u \in rows : TRUE IN
         IF verify_password(senha, row.salt_hex, row.hash_hex)
         THEN [id |-> row.id, uid |-> row.uid, role |-> row.role]
         ELSE NoUser

autenticar(s, uid, senha) ==
    LET rows == {u \in Usuarios(s) : u.uid = Strip(uid)} IN
    IF rows = {} THEN NoUser
    ELSE LET row == CHOOSE u \in rows : TRUE IN
         IF row.ativo = 0 THEN NoUser
         ELSE IF verify_password(senha, row.salt_hex, row.hash_hex)
              THEN [id |-> row.id, uid |-> row.uid, role |-> row.role]
              ELSE NoUser

\* the SELECT run on a connection other than the one that appended
existe_registro_outra_conexao(transporte, pedido, tipo_tela, s) ==
    \E i \in 1..Len(committed) :
        /\ committed[i].tipo_tela = tipo_tela
        /\ committed[i].transporte = Take(transporte, 10)
        /\ committed[i].pedido = Take(pedido, 10)

existe_registro(transporte, pedido, tipo_tela, s) ==
    \E i \in 1..Len(View(s)) :
        /\ View(s)[i].tipo_tela = tipo_tela
        /\ View(s)[i].transporte = Take(transporte, 10)
        /\ View(s)[i].pedido = Take(pedido, 10)

\* the row criar_usuario inserts under the key id
UsuarioRow(id, uid, nome, role, senha, ativo, salt, criado_em) ==
    [id |-> id, uid |-> Strip(uid),
     nome |-> Strip(IF nome = <<>> THEN uid ELSE nome),
     role |-> role, criado_em |-> criado_em,
     salt_hex |-> make_hash(senha, salt)[1],
     hash_hex |-> make_hash(senha, salt)[2],
     ativo |-> IF ativo THEN 1 ELSE 0]

\* criar_usuario as called by the two forms: OperationalError when the write
\* lock stays with another connection, IntegrityError (caught by the forms,
\* the transaction left open) when the login exists, else INSERT and commit
criar_usuario(s, uid, nome, role, senha, ativo, salt, done, leu) ==
    IF ~CanWrite(s)
    THEN /\ out' = <<s, "OperationalError">>
         /\ Falhar(s, leu)
         /\ UNCHANGED dbVars
    ELSE IF \E u \in usuarios : u.uid = Strip(uid)
    THEN /\ out' = <<s, "Login ja existe.">>
         /\ lock' = s
         /\ snapshot' = [snapshot EXCEPT ![s] = Autocommit]
         /\ UNCHANGED <<usuarios, seq_usuarios, committed, pending, counter>>
    ELSE /\ seq_usuarios < MaxUserId
         /\ usuarios' = usuarios \cup {UsuarioRow(seq_usuarios + 1, uid, nome, role, senha, ativo,
                                                  salt, strftime(agora, FmtDataHora))}
         /\ seq_usuarios' = seq_usuarios + 1
         /\ Commit(s)
         /\ out' = <<s, done>>
         /\ UNCHANGED counter

\* atualizar_usuario with an UPDATE that has lost its WHERE clause
atualizar_usuario_sem_where(s, user_id, nome, role, ativo, done) ==
    IF ~CanWrite(s)
    THEN /\ out' = <<s, "OperationalError">>
         /\ Falhar(s, TRUE)
         /\ UNCHANGED dbVars
    ELSE /\ usuarios' = {[u EXCEPT !.nome = Strip(nome),
                                   !.role = role,
                                   !.ativo = IF ativo THEN 1 ELSE 0] : u \in usuarios}
         /\ Commit(s)
         /\ out' = <<s, done>>
         /\ UNCHANGED <<seq_usuarios, counter>>

\* UPDATE usuarios SET nome, role, ativo WHERE id = user_id, and commit;
\* OperationalError when the write lock stays with another connection
atualizar_usuario(s, user_id, nome, role, ativo, done) ==
    IF ~CanWrite(s)
    THEN /\ out' = <<s, "OperationalError">>
         /\ Falhar(s, TRUE)
         /\ UNCHANGED dbVars
    ELSE /\ usuarios' = {IF u.id = user_id
                         THEN [u EXCEPT !.nome = Strip(nome),
                                        !.role = role,
                                        !.ativo = IF ativo THEN 1 ELSE 0]
                         ELSE u : u \in usuarios}
         /\ Commit(s)
         /\ out' = <<s, done>>
         /\ UNCHANGED <<seq_usuarios, counter>>

resetar_senha(s, user_id, nova_senha, salt, done) ==
    IF ~CanWrite(s)
    THEN /\ out' = <<s, "OperationalError">>
         /\ Falhar(s, TRUE)
         /\ UNCHANGED dbVars
    ELSE /\ usuarios' = {IF u.id = user_id
                         THEN [u EXCEPT !.salt_hex = make_hash(nova_senha, salt)[1],
                                        !.hash_hex = make_hash(nova_senha, salt)[2]]
                         ELSE u : u \in usuarios}
         /\ Commit(s)
         /\ out' = <<s, done>>
         /\ UNCHANGED <<seq_usuarios, counter>>

remover_usuario(s, user_id, done) ==
    IF ~CanWrite(s)
    THEN /\ out' = <<s, "OperationalError">>
         /\ Falhar(s, TRUE)
         /\ UNCHANGED dbVars
    ELSE /\ usuarios' = {u \in usuarios : u.id # user_id}
         /\ Commit(s)
         /\ out' = <<s, done>>
         /\ UNCHANGED <<seq_usuarios, counter>>

\* the users the Cadastros page lists (empty search text)
listar_usuarios(s) == Usuarios(s)

\* the row append_row inserts for the dict it is given
StoredRow(row) ==
    [data_hora |-> row.data_hora,
     usuario |-> row.usuario,
     tipo_tela |-> row.tipo_tela,
     transporte |-> Take(row.transporte, 10),
     pedido |-> Take(row.pedido, 10),
     divergencia |-> IF row.divergencia THEN 1 ELSE 0,
     supervisor_liberou |-> row.supervisor_liberou,
     motivo_divergencia |-> row.motivo_divergencia]

\* append_row, the INSERT succeeding: the row joins the connection's open
\* transaction, which is committed when counter reaches flush_interval
append_row(s, row) ==
    IF counter[s] + 1 >= FLUSH_INTERVAL
    THEN /\ committed' = committed \o pending[s] \o <<StoredRow(row)>>
         /\ pending' = [pending EXCEPT ![s] = <<>>]
         /\ lock' = "free"
         /\ counter' = [counter EXCEPT ![s] = 0]
         /\ snapshot' = [snapshot EXCEPT ![s] = Autocommit]
    ELSE /\ pending' = [pending EXCEPT ![s] = Append(@, StoredRow(row))]
         /\ lock' = s
         /\ counter' = [counter EXCEPT ![s] = @ + 1]
         /\ snapshot' = [snapshot EXCEPT ![s] = Autocommit]
         /\ UNCHANGED committed

\* ORDER BY data_hora ASC: rows with the same data_hora keep the table's order
RECURSIVE OrderBy(_)
OrderBy(rows) ==
    IF rows = <<>> THEN <<>>
    ELSE LET x == rows[Len(rows)]
             rest == OrderBy(SubSeq(rows, 1, Len(rows) - 1))
             k == Cardinality({i \in 1..Len(rest) : TextLeq(rest[i].data_hora, x.data_hora)})
         IN SubSeq(rest, 1, k) \o <<x>> \o SubSeq(rest, k + 1, Len(rest))

\* query_export without ORDER BY: the rows in the table's order
query_export_sem_order_by(s, dt_ini, dt_fim, tipo_tela, apenas_div) ==
    LET start == strftime(dt_ini, FmtData) \o <<" ", "0", "0", ":", "0", "0", ":", "0", "0">>
        end == strftime(dt_fim, FmtData) \o <<" ", "2", "3", ":", "5", "9", ":", "5", "9">>
        Where(r) ==
            /\ TextLeq(start, r.data_hora) /\ TextLeq(r.data_hora, end)
            /\ tipo_tela \notin {"", "TODAS"} => r.tipo_tela = tipo_tela
            /\ apenas_div => r.divergencia = 1
    IN SelectSeq(View(s), Where)

\* query_export with end = the first second of dt_fim
query_export_fim_meia_noite(s, dt_ini, dt_fim, tipo_tela, apenas_div) ==
    LET start == strftime(dt_ini, FmtData) \o <<" ", "0", "0", ":", "0", "0", ":", "0", "0">>
        end == strftime(dt_fim, FmtData) \o <<" ", "0", "0", ":", "0", "0", ":", "0", "0">>
        Where(r) ==
            /\ TextLeq(start, r.data_hora) /\ TextLeq(r.data_hora, end)
            /\ tipo_tela \notin {"", "TODAS"} => r.tipo_tela = tipo_tela
            /\ apenas_div => r.divergencia = 1
    IN OrderBy(SelectSeq(View(s), Where))

\* query_export: the rows the SELECT returns on the connection of session s
query_export(s, dt_ini, dt_fim, tipo_tela, apenas_div) ==
    LET start == strftime(dt_ini, FmtData) \o <<" ", "0", "0", ":", "0", "0", ":", "0", "0">>
        end == strftime(dt_fim, FmtData) \o <<" ", "2", "3", ":", "5", "9", ":", "5", "9">>
        Where(r) ==
            /\ TextLeq(start, r.data_hora) /\ TextLeq(r.data_hora, end)
            /\ tipo_tela \notin {"", "TODAS"} => r.tipo_tela = tipo_tela
            /\ apenas_div => r.divergencia = 1
    IN OrderBy(SelectSeq(View(s), Where))

\* the dict registrar_dado builds
registrar_dado(usuario, tela_origem, transporte, pedido, divergencia, supervisor_liberou, motivo_divergencia) ==
    [data_hora |-> strftime(agora, FmtDataHora),
     usuario |-> usuario,
     tipo_tela |-> tela_origem,
     transporte |-> Take(transporte, 10),
     pedido |-> Take(pedido, 10),
     divergencia |-> divergencia,
     supervisor_liberou |-> supervisor_liberou,
     motivo_divergencia |-> motivo_divergencia]

\* --------------------------------------------------- the two screens
\* tela_leitura without the call of verificar_registro_existente
VerdictLeituraSemDuplicado(s, t, p) ==
    IF t = <<>> \/ p = <<>> THEN "REJECT_INCOMPLETE"
    ELSE IF t # p THEN "REQUIRE_OVERRIDE"
    ELSE "ACCEPT"

\* the branch tela_leitura takes for the sanitized codes t and p
VerdictLeitura(s, t, p) ==
    IF t = <<>> \/ p = <<>> THEN "REJECT_INCOMPLETE"
    ELSE IF t # p \/ existe_registro(t, p, "LEITURA", s) THEN "REQUIRE_OVERRIDE"
    ELSE "ACCEPT"

\* tela_varios without the branch "Leitura invalida."
VerdictVariosSemVazio(s, t, p) ==
    IF t # p THEN "REQUIRE_OVERRIDE"
    ELSE "ACCEPT"

\* the branch tela_varios takes for the sanitized codes t and p
VerdictVarios(s, t, p) ==
    IF t = <<>> \/ p = <<>> THEN "REJECT_INCOMPLETE"
    ELSE IF t # p THEN "REQUIRE_OVERRIDE"
    ELSE "ACCEPT"

\* rows of registros written or being written
Room ==
    Len(RecordLog) + Cardinality({s \in Sessions : call[s] # NoCall}) < MaxLog

\* no dialog is open and no handler is running in session s
Idle(s) == dialog[s] = NoDialog /\ call[s] = NoCall

\* f"T:{t}  P:{p}"
FmtLeitura(t, p) == <<"T", ":">> \o t \o <<" ", " ", "P", ":">> \o p

\* one item of st.session_state.volumes
Volume(n, t, p, divergente) ==
    [n |-> n, transporte |-> t, pedido |-> p, divergente |-> divergente]

\* ------------------------------------------------------- login page
\* the form "Criar Admin" handing the role "user" to criar_usuario
CriarAdminComoUser(s, uid, senha1, senha2, salt) ==
    /\ page[s] = "login"
    /\ ~existe_admin(s)
    /\ IF uid = <<>> \/ senha1 = <<>>
       THEN out' = <<s, "Informe login e senha.">> /\ Ler(s) /\ UNCHANGED dbVars
       ELSE IF senha1 # senha2
       THEN out' = <<s, "As senhas nao conferem.">> /\ Ler(s) /\ UNCHANGED dbVars
       ELSE criar_usuario(s, uid, uid, "user", senha1, TRUE, salt,
                          "Administrador criado. Faca login.", TRUE)
    /\ UNCHANGED uiVars
    /\ UNCHANGED agora
    /\ UNCHANGED <<arquivo, codigo>>

\* setup_admin_gate: the form "Criar Admin", shown while no active admin
\* exists; "Nome (opcional)" is left empty, so that nome or uid is uid
CriarAdmin(s, uid, senha1, senha2, salt) ==
    /\ page[s] = "login"
    /\ ~existe_admin(s)
    /\ IF uid = <<>> \/ senha1 = <<>>
       THEN out' = <<s, "Informe login e senha.">> /\ Ler(s) /\ UNCHANGED dbVars
       ELSE IF senha1 # senha2
       THEN out' = <<s, "As senhas nao conferem.">> /\ Ler(s) /\ UNCHANGED dbVars
       ELSE criar_usuario(s, uid, uid, "admin", senha1, TRUE, salt,
                          "Administrador criado. Faca login.", TRUE)
    /\ UNCHANGED uiVars
    /\ UNCHANGED agora
    /\ UNCHANGED <<arquivo, codigo>>

\* tela_login: the form "Entrar"
Entrar(s, uid, pwd) ==
    /\ page[s] = "login"
    /\ existe_admin(s)
    /\ IF autenticar(s, uid, pwd) # NoUser
       THEN /\ user' = [user EXCEPT ![s] = autenticar(s, uid, pwd)]
            /\ page' = [page EXCEPT ![s] = "leitura"]
            /\ out' = <<s, "Bem-vindo">>
       ELSE /\ out' = <<s, "Login ou senha invalidos, ou usuario inativo.">>
            /\ UNCHANGED <<user, page>>
    /\ UNCHANGED <<dialog, call, volumes, vol_count, ult_leitura>>
    /\ UNCHANGED dbVars
    /\ UNCHANGED campos
    /\ Ler(s)
    /\ UNCHANGED agora
    /\ UNCHANGED <<arquivo, codigo>>

\* ------------------------------------------------ sidebar and footer
\* the pages sidebar_nav offers to the session's user
Options(s) ==
    {"leitura", "varios", "exportar"}
        \cup (IF user[s].role = "admin" THEN {"cadastros"} ELSE {})

\* the navigation radio and the page buttons
Navegar(s, target) ==
    /\ user[s] # NoUser
    /\ Idle(s)
    /\ target \in Options(s) \ {page[s]}
    /\ page' = [page EXCEPT ![s] = target]
    /\ out' = <<s, "-">>
    /\ UNCHANGED <<user, dialog, call, volumes, vol_count, ult_leitura>>
    /\ UNCHANGED dbVars
    /\ campos' = [campos EXCEPT ![s] = Vazio]
    /\ IF target \in {"exportar", "cadastros"} THEN Ler(s) ELSE UNCHANGED snapshot
    /\ UNCHANGED agora
    /\ UNCHANGED <<arquivo, codigo>>

\* the button "Sair"
Sair(s) ==
    /\ user[s] # NoUser
    /\ Idle(s)
    /\ Commit(s)
    /\ user' = [user EXCEPT ![s] = NoUser]
    /\ page' = [page EXCEPT ![s] = "login"]
    /\ out' = <<s, "-">>
    /\ UNCHANGED <<usuarios, seq_usuarios, counter>>
    /\ UNCHANGED <<dialog, call, volumes, vol_count, ult_leitura>>
    /\ campos' = [campos EXCEPT ![s] = Vazio]
    /\ UNCHANGED agora
    /\ UNCHANGED <<arquivo, codigo>>

\* the button "Salvar agora"
SalvarAgora(s) ==
    /\ Idle(s)
    /\ Commit(s)
    /\ out' = <<s, "Commit realizado.">>
    /\ UNCHANGED <<usuarios, seq_usuarios, counter>>
    /\ UNCHANGED uiVars
    /\ UNCHANGED agora
    /\ UNCHANGED <<arquivo, codigo>>

\* ------------------------------------------------------ scan screens
\* st.form with clear_on_submit=True: the fields are emptied by the submission
FormularioLimpo(s, t_raw, p_raw) == campos' = [campos EXCEPT ![s] = Vazio]

\* st.form(..., clear_on_submit=False): the fields keep the texts submitted
Formulario(s, t_raw, p_raw) == campos' = [campos EXCEPT ![s] = <<t_raw, p_raw>>]

\* tela_leitura: the form "Registrar" up to the call of registrar_dado
SubmitLeitura(s, t_raw, p_raw) ==
    LET t == sanitize_code(Strip(t_raw), CODE_LEN)
        p == sanitize_code(Strip(p_raw), CODE_LEN)
        v == VerdictLeitura(s, t, p)
    IN
    /\ page[s] = "leitura"
    /\ Idle(s)
    /\ UNCHANGED <<user, page, volumes, vol_count, ult_leitura>>
    /\ UNCHANGED dbVars
    /\ IF v = "REJECT_INCOMPLETE"
       THEN /\ out' = <<s, "focus">>
            /\ UNCHANGED <<dialog, call>>
       ELSE IF v = "REQUIRE_OVERRIDE"
       THEN /\ dialog' = [dialog EXCEPT ![s] =
                   [transporte |-> t, pedido |-> p, origem |-> "LEITURA"]]
            /\ out' = <<s, "Etiqueta Divergente">>
            /\ UNCHANGED call
       ELSE /\ Room
            /\ call' = [call EXCEPT ![s] =
                   registrar_dado(user[s].uid, "LEITURA", t, p, FALSE, <<>>, <<>>)]
            /\ out' = <<s, "-">>
            /\ UNCHANGED dialog
    /\ Formulario(s, t_raw, p_raw)
    /\ IF t # <<>> /\ p # <<>> /\ t = p THEN Ler(s) ELSE UNCHANGED snapshot
    /\ UNCHANGED agora
    /\ UNCHANGED <<arquivo, codigo>>

\* tela_varios: the form "Adicionar/Registrar" up to the call of registrar_dado
SubmitVarios(s, t_raw, p_raw) ==
    LET t == sanitize_code(Strip(t_raw), 10)
        p == sanitize_code(Strip(p_raw), 10)
        v == VerdictVarios(s, t, p)
    IN
    /\ page[s] = "varios"
    /\ Idle(s)
    /\ UNCHANGED <<user, page, volumes, vol_count, ult_leitura>>
    /\ UNCHANGED dbVars
    /\ IF v = "REJECT_INCOMPLETE"
       THEN /\ out' = <<s, "Leitura invalida.">>
            /\ UNCHANGED <<dialog, call>>
       ELSE IF v = "REQUIRE_OVERRIDE"
       THEN /\ dialog' = [dialog EXCEPT ![s] =
                   [transporte |-> t, pedido |-> p, origem |-> "VARIOS"]]
            /\ out' = <<s, "Etiqueta Divergente">>
            /\ UNCHANGED call
       ELSE /\ Room
            /\ call' = [call EXCEPT ![s] =
                   registrar_dado(user[s].uid, "VARIOS", t, p, FALSE, <<>>, <<>>)]
            /\ out' = <<s, "-">>
            /\ UNCHANGED dialog
    /\ Formulario(s, t_raw, p_raw)
    /\ UNCHANGED snapshot
    /\ UNCHANGED agora
    /\ UNCHANGED <<arquivo, codigo>>

\* "Zerar Lista (UI)" with st.session_state.vol_count left as it is
ZerarListaSemContador(s) ==
    /\ page[s] = "varios"
    /\ Idle(s)
    /\ volumes' = [volumes EXCEPT ![s] = <<>>]
    /\ out' = <<s, "-">>
    /\ UNCHANGED <<user, page, dialog, call, vol_count, ult_leitura>>
    /\ UNCHANGED dbVars
    /\ UNCHANGED campos
    /\ UNCHANGED snapshot
    /\ UNCHANGED agora
    /\ UNCHANGED <<arquivo, codigo>>

\* "Zerar Lista (UI)" with st.session_state.volumes left as it is
ZerarListaSemLista(s) ==
    /\ page[s] = "varios"
    /\ Idle(s)
    /\ vol_count' = [vol_count EXCEPT ![s] = 0]
    /\ out' = <<s, "-">>
    /\ UNCHANGED <<user, page, dialog, call, volumes, ult_leitura>>
    /\ UNCHANGED dbVars
    /\ UNCHANGED campos
    /\ UNCHANGED snapshot
    /\ UNCHANGED agora
    /\ UNCHANGED <<arquivo, codigo>>

\* tela_varios: the button "Zerar Lista (UI)"
ZerarLista(s) ==
    /\ page[s] = "varios"
    /\ Idle(s)
    /\ volumes' = [volumes EXCEPT ![s] = <<>>]
    /\ vol_count' = [vol_count EXCEPT ![s] = 0]
    /\ out' = <<s, "-">>
    /\ UNCHANGED <<user, page, dialog, call, ult_leitura>>
    /\ UNCHANGED dbVars
    /\ UNCHANGED campos
    /\ UNCHANGED snapshot
    /\ UNCHANGED agora
    /\ UNCHANGED <<arquivo, codigo>>

\* any authenticated account may release
PodeLiberarQualquerPapel(auth) == auth # NoUser

\* dialog_divergencia: auth and auth["role"] in ("supervisor", "admin")
PodeLiberar(auth) == auth # NoUser /\ auth.role \in {"supervisor", "admin"}

\* the message is shown and the dialog closes
RecusaFechando(s, msg) ==
    /\ out' = <<s, msg>>
    /\ dialog' = [dialog EXCEPT ![s] = NoDialog]
    /\ UNCHANGED call

\* dialog_divergencia: st.warning and st.stop(), or st.error, inside the dialog
Recusa(s, msg) ==
    /\ out' = <<s, msg>>
    /\ UNCHANGED <<call, dialog>>

\* dialog_divergencia: the button "Validar e Concluir" up to registrar_dado
Concluir(s, sid, spw, motivo) ==
    LET auth == autenticar(s, sid, spw) IN
    /\ dialog[s] # NoDialog
    /\ call[s] = NoCall
    /\ IF PodeLiberar(auth)
       THEN IF Strip(motivo) = <<>>
            THEN Recusa(s, "Informe o motivo da divergencia.")
            ELSE /\ Room
                 /\ call' = [call EXCEPT ![s] =
                        registrar_dado(user[s].uid, dialog[s].origem,
                                       dialog[s].transporte, dialog[s].pedido,
                                       TRUE, sid, Strip(motivo))]
                 /\ out' = <<s, "-">>
                 /\ UNCHANGED dialog
       ELSE Recusa(s, "Credenciais invalidas ou papel insuficiente")
    /\ UNCHANGED <<user, page, volumes, vol_count, ult_leitura>>
    /\ UNCHANGED dbVars
    /\ UNCHANGED campos
    /\ Ler(s)
    /\ UNCHANGED agora
    /\ UNCHANGED <<arquivo, codigo>>

\* the dialog stays open
CancelarSemFechar(s) ==
    /\ dialog[s] # NoDialog
    /\ call[s] = NoCall
    /\ out' = <<s, "Cancelar">>
    /\ UNCHANGED <<user, page, dialog, call, volumes, vol_count, ult_leitura>>
    /\ UNCHANGED dbVars
    /\ UNCHANGED campos
    /\ UNCHANGED snapshot
    /\ UNCHANGED agora
    /\ UNCHANGED <<arquivo, codigo>>

\* dialog_divergencia: the button "Cancelar"; st.rerun() closes the dialog
Cancelar(s) ==
    /\ dialog[s] # NoDialog
    /\ call[s] = NoCall
    /\ dialog' = [dialog EXCEPT ![s] = NoDialog]
    /\ out' = <<s, "Cancelar">>
    /\ UNCHANGED <<user, page, call, volumes, vol_count, ult_leitura>>
    /\ UNCHANGED dbVars
    /\ UNCHANGED campos
    /\ UNCHANGED snapshot
    /\ UNCHANGED agora
    /\ UNCHANGED <<arquivo, codigo>>

\* st.session_state["scan_t"] = "" and ["scan_p"] = "" (or "varios_t",
\* "varios_p") after a direct registration: the fields are emptied, or, where
\* Streamlit refuses to set the key of a widget instantiated in the same run
\* (StreamlitAPIException), they keep their texts
Limpar(s) == campos' \in {campos, [campos EXCEPT ![s] = Vazio]}

\* registrar_dado returning: append_row has inserted, and the handler that
\* called it runs to its end
RegistrarDado(s) ==
    /\ call[s] # NoCall
    /\ CanWrite(s)
    /\ append_row(s, call[s])
    /\ call' = [call EXCEPT ![s] = NoCall]
    /\ IF dialog[s] # NoDialog
       THEN /\ IF dialog[s].origem = "VARIOS"
               THEN /\ vol_count' = [vol_count EXCEPT ![s] = @ + 1]
                    /\ volumes' = [volumes EXCEPT ![s] =
                           Append(@, Volume(vol_count[s] + 1, dialog[s].transporte,
                                            dialog[s].pedido, TRUE))]
               ELSE UNCHANGED <<vol_count, volumes>>
            /\ dialog' = [dialog EXCEPT ![s] = NoDialog]
            /\ out' = <<s, "Divergencia liberada com sucesso!">>
            /\ UNCHANGED <<ult_leitura, campos>>
       ELSE IF call[s].tipo_tela = "LEITURA"
       THEN /\ ult_leitura' = [ult_leitura EXCEPT ![s] =
                   FmtLeitura(call[s].transporte, call[s].pedido)]
            /\ out' = <<s, "Registrado com sucesso">>
            /\ UNCHANGED <<dialog, vol_count, volumes>>
            /\ Limpar(s)
       ELSE /\ vol_count' = [vol_count EXCEPT ![s] = @ + 1]
            /\ volumes' = [volumes EXCEPT ![s] =
                   Append(@, Volume(vol_count[s] + 1, call[s].transporte,
                                    call[s].pedido, FALSE))]
            /\ out' = <<s, "Registrado com sucesso">>
            /\ UNCHANGED <<dialog, ult_leitura>>
            /\ Limpar(s)
    /\ UNCHANGED <<usuarios, seq_usuarios, user, page>>
    /\ UNCHANGED agora
    /\ UNCHANGED <<arquivo, codigo>>

\* append_row's except branch without st.stop(): the handler that called
\* registrar_dado runs on as if the row had been inserted
ErroInserirSemParar(s) ==
    /\ call[s] # NoCall
    /\ ~CanWrite(s)
    /\ call' = [call EXCEPT ![s] = NoCall]
    /\ out' = <<s, "Erro ao inserir na tabela 'registros'">>
    /\ dialog' = [dialog EXCEPT ![s] = NoDialog]
    /\ IF dialog[s] = NoDialog /\ call[s].tipo_tela = "LEITURA"
       THEN ult_leitura' = [ult_leitura EXCEPT ![s] =
                FmtLeitura(call[s].transporte, call[s].pedido)]
       ELSE UNCHANGED ult_leitura
    /\ IF call[s].tipo_tela = "VARIOS"
       THEN /\ vol_count' = [vol_count EXCEPT ![s] = @ + 1]
            /\ volumes' = [volumes EXCEPT ![s] =
                   Append(@, Volume(vol_count[s] + 1, call[s].transporte,
                                    call[s].pedido, call[s].divergencia))]
       ELSE UNCHANGED <<vol_count, volumes>>
    /\ UNCHANGED <<user, page, campos>>
    /\ UNCHANGED dbVars
    /\ Falhar(s, FALSE)
    /\ UNCHANGED agora
    /\ UNCHANGED <<arquivo, codigo>>

\* append_row's except branch: the INSERT timed out on the write lock of
\* another connection; st.error and st.stop()
ErroInserir(s) ==
    /\ call[s] # NoCall
    /\ ~CanWrite(s)
    /\ call' = [call EXCEPT ![s] = NoCall]
    /\ out' = <<s, "Erro ao inserir na tabela 'registros'">>
    /\ UNCHANGED <<user, page, dialog, volumes, vol_count, ult_leitura>>
    /\ UNCHANGED dbVars
    /\ UNCHANGED campos
    /\ Falhar(s, FALSE)
    /\ UNCHANGED agora
    /\ UNCHANGED <<arquivo, codigo>>

\* ------------------------------------------------------- Exportar CSV
\* tela_exportar rendered with the dates, the screen and the checkbox chosen
Exportar(s, dt_ini, dt_fim, tipo, apenas_div) ==
    /\ page[s] = "exportar"
    /\ user[s] # NoUser
    /\ out' = <<s, IF query_export(s, dt_ini, dt_fim, tipo, apenas_div) # <<>>
                   THEN "Baixar CSV"
                   ELSE "Registros encontrados: 0">>
    /\ UNCHANGED uiVars
    /\ UNCHANGED dbVars
    /\ Ler(s)
    /\ UNCHANGED agora
    /\ UNCHANGED <<arquivo, codigo>>

\* time passes
Tique ==
    /\ \E i \in 1..(Len(Instantes) - 1) :
           agora = Instantes[i] /\ agora' = Instantes[i + 1]
    /\ UNCHANGED <<uiVars, dbVars, snapshot, out>>
    /\ UNCHANGED <<arquivo, codigo>>

\* -------------------------------------------------------- Cadastros
\* tela_cadastros renders for the session's user
Admin(s) == page[s] = "cadastros" /\ user[s] # NoUser /\ user[s].role = "admin"

\* the form "Novo usuario"; "Nome" is left empty, so that nome or uid is uid
NovoUsuario(s, uid, role, ativo, senha1, senha2, salt) ==
    /\ Admin(s)
    /\ IF uid = <<>> \/ senha1 = <<>>
       THEN out' = <<s, "Preencha login e senha.">> /\ Ler(s) /\ UNCHANGED dbVars
       ELSE IF senha1 # senha2
       THEN out' = <<s, "As senhas nao conferem.">> /\ Ler(s) /\ UNCHANGED dbVars
       ELSE criar_usuario(s, uid, uid, role, senha1, ativo, salt, "Usuario criado!", FALSE)
    /\ UNCHANGED uiVars
    /\ UNCHANGED agora
    /\ UNCHANGED <<arquivo, codigo>>

\* the button "Salvar alteracoes" of a listed user
SalvarAlteracoes(s, rec, novo_nome, novo_role, novo_ativo) ==
    /\ Admin(s)
    /\ rec \in listar_usuarios(s)
    /\ atualizar_usuario(s, rec.id, novo_nome, novo_role, novo_ativo, "Alteracoes salvas.")
    /\ UNCHANGED uiVars
    /\ UNCHANGED agora
    /\ UNCHANGED <<arquivo, codigo>>

\* the button "Resetar senha" of a listed user
ResetarSenha(s, rec, nova_senha1, nova_senha2, salt) ==
    /\ Admin(s)
    /\ rec \in listar_usuarios(s)
    /\ IF nova_senha1 # <<>> /\ nova_senha1 = nova_senha2
       THEN resetar_senha(s, rec.id, nova_senha1, salt, "Senha redefinida.")
       ELSE /\ out' = <<s, "Preencha e confirme a nova senha corretamente.">>
            /\ Ler(s)
            /\ UNCHANGED dbVars
    /\ UNCHANGED uiVars
    /\ UNCHANGED agora
    /\ UNCHANGED <<arquivo, codigo>>

\* the button "Remover usuario" of a listed user
RemoverUsuario(s, rec) ==
    /\ Admin(s)
    /\ rec \in listar_usuarios(s)
    /\ remover_usuario(s, rec.id, "Usuario removido.")
    /\ UNCHANGED uiVars
    /\ UNCHANGED agora
    /\ UNCHANGED <<arquivo, codigo>>

\* ------------------------------------------------------ the shop floor
\* when the users of the shop floor were created
Antes == strftime(DateTime(2026, 1, 2, 8, 0, 0), FmtDataHora)

\* a users table the Cadastros page has filled: rows as criar_usuario stores
\* them, the last one from the login " " typed into the form
Staff ==
    {UsuarioRow(1, <<"a">>, <<"a">>, "admin", <<"p">>, TRUE, <<"s1">>, Antes),
     UsuarioRow(2, <<"b">>, <<"b">>, "supervisor", <<"p">>, TRUE, <<"s2">>, Antes),
     UsuarioRow(3, <<"c">>, <<"c">>, "user", <<"p">>, TRUE, <<"s1">>, Antes),
     UsuarioRow(4, <<"d">>, <<"d">>, "supervisor", <<"p">>, FALSE, <<"s2">>, Antes),
     UsuarioRow(5, <<" ">>, <<" ">>, "supervisor", <<"p">>, TRUE, <<"s1">>, Antes)}

InitStaff ==
    /\ usuarios = Staff
    /\ seq_usuarios = 5
    /\ arquivo = Atual
    /\ codigo = NoCodigo
    /\ InitSessions

\* logins typed by the operator at the login page
OperatorLogins == {<<"c">>, <<"d">>, <<"x">>}

\* what is typed into the dialog before "Validar e Concluir": login, password
\* and reason
Attempts ==
    {<<<<" ", "b">>, <<"p">>, <<" ", "r">>>>,
     <<<<"a">>, <<"p">>, <<" ", "r">>>>,
     <<<<>>, <<"p">>, <<" ", "r">>>>,
     <<<<" ", "b">>, <<"q">>, <<" ", "r">>>>,
     <<<<"c">>, <<"p">>, <<" ", "r">>>>,
     <<<<"d">>, <<"p">>, <<" ", "r">>>>,
     <<<<"x">>, <<"p">>, <<" ", "r">>>>,
     <<<<" ", "b">>, <<"p">>, <<" ">>>>,
     <<<<"c">>, <<"q">>, <<>>>>}

\* text typed into a password field
Senhas == {<<"p">>, <<"q">>}

\* text typed or scanned into "Transporte" and into "Pedido"
Transportes == {<<>>, <<"A", "-">>}

Pedidos == {<<" ", "A">>, <<"B">>}

\* what session s can do on the scan screens and in the dialog
Floor(s) ==
    \/ \E uid \in OperatorLogins, pwd \in Senhas : Entrar(s, uid, pwd)
    \/ \E target \in {"leitura", "varios", "exportar"} : Navegar(s, target)
    \/ Sair(s)
    \/ SalvarAgora(s)
    \/ \E t \in Transportes, p \in Pedidos : SubmitLeitura(s, t, p)
    \/ \E t \in Transportes, p \in Pedidos : SubmitVarios(s, t, p)
    \/ ZerarLista(s)
    \/ \E a \in Attempts : Concluir(s, a[1], a[2], a[3])
    \/ Cancelar(s)
    \/ RegistrarDado(s)

\* one browser session on the shop floor
Next == Floor("s1")

Spec == InitStaff /\ [][Next]_vars

\* an operator on both scan screens, with a second session at work
Bench(s) ==
    \/ \E pwd \in Senhas : Entrar(s, <<"c">>, pwd)
    \/ \E target \in {"leitura", "varios"} : Navegar(s, target)
    \/ SalvarAgora(s)
    \/ \E t \in Transportes, p \in Pedidos : SubmitLeitura(s, t, p)
    \/ \E t \in Transportes, p \in Pedidos : SubmitVarios(s, t, p)
    \/ \E spw \in Senhas : Concluir(s, <<" ", "b">>, spw, <<" ", "r">>)
    \/ Cancelar(s)
    \/ RegistrarDado(s)
    \/ ErroInserir(s)

\* a second operator, who scans one pair on screen LEITURA
Colega(s) ==
    \/ Entrar(s, <<"c">>, <<"p">>)
    \/ SalvarAgora(s)
    \/ SubmitLeitura(s, <<"A", "-">>, <<" ", "A">>)
    \/ RegistrarDado(s)
    \/ ErroInserir(s)

Next2 == Bench("s1") \/ Colega("s2")

SpecTwo == InitStaff /\ [][Next2]_vars

\* ------------------------------------------- the floor and the desk
\* logins typed into the form "Novo usuario" that the users table holds already
LoginsExistentes == {<<" ", "b">>, <<"c">>}

\* an operator scanning on screen LEITURA
Scan(s) ==
    \/ Entrar(s, <<"c">>, <<"p">>)
    \/ \E p \in Pedidos : SubmitLeitura(s, <<"A", "-">>, p)
    \/ Cancelar(s)
    \/ RegistrarDado(s)
    \/ ErroInserir(s)
    \/ SalvarAgora(s)

\* an administrator on the Cadastros page
Desk(s) ==
    \/ Entrar(s, <<"a">>, <<"p">>)
    \/ Navegar(s, "cadastros")
    \/ \E uid \in LoginsExistentes :
           NovoUsuario(s, uid, "user", TRUE, <<"p">>, <<"p">>, <<"s1">>)
    \/ SalvarAgora(s)

NextLock == Scan("s1") \/ Desk("s2")

SpecLock == InitStaff /\ [][NextLock]_vars

\* ------------------------------------------------- scans and exports
\* dates picked in "Data inicial" and "Data final"
Datas == {Date(2026, 1, 31), Date(2026, 2, 1)}

\* the options of "Tipo de Tela"
Tipos == {"TODAS", "LEITURA", "VARIOS"}

\* an operator on screen LEITURA who saves and exports
Turno(s) ==
    \/ Entrar(s, <<"c">>, <<"p">>)
    \/ \E target \in {"leitura", "exportar"} : Navegar(s, target)
    \/ SalvarAgora(s)
    \/ \E p \in Pedidos : SubmitLeitura(s, <<"A", "-">>, p)
    \/ Concluir(s, <<" ", "b">>, <<"p">>, <<" ", "r">>)
    \/ RegistrarDado(s)
    \/ ErroInserir(s)
    \/ \E dt_ini \in Datas, dt_fim \in Datas, tipo \in Tipos, apenas_div \in BOOLEAN :
           Exportar(s, dt_ini, dt_fim, tipo, apenas_div)

\* a second operator, on screen VARIOS
Volumes(s) ==
    \/ Entrar(s, <<"c">>, <<"p">>)
    \/ Navegar(s, "varios")
    \/ SalvarAgora(s)
    \/ SubmitVarios(s, <<"A", "-">>, <<" ", "A">>)
    \/ RegistrarDado(s)
    \/ ErroInserir(s)

NextExport == Tique \/ Turno("s1") \/ Volumes("s2")

SpecExport == InitStaff /\ [][NextExport]_vars

\* ------------------------------------------------------- the office
\* what secrets.token_hex(16) may return
Salts == {<<"s1">>}

\* logins typed into the forms that create a user
NovosLogins == {<<>>, <<" ">>, <<"a">>, <<" ", "a">>}

\* logins typed at the login page
Logins == {<<>>, <<"a">>, <<" ", "a">>, <<"x">>}

\* roles picked in the select boxes of the Cadastros page
Papeis == {"user", "admin"}

\* a password and its confirmation, typed into a form that creates a user
SenhaPairs == {<<<<>>, <<>>>>, <<<<"p">>, <<"p">>>>, <<<<"p">>, <<"q">>>>}

\* a new password and its confirmation, typed for "Resetar senha"
NovasSenhas == {<<<<>>, <<>>>>, <<<<"p">>, <<"p">>>>, <<<<"q">>, <<"q">>>>, <<<<"p">>, <<"q">>>>}

\* what session s can do at the login page and on the Cadastros page
Office(s) ==
    \/ \E uid \in NovosLogins, pair \in SenhaPairs, salt \in Salts :
           CriarAdmin(s, uid, pair[1], pair[2], salt)
    \/ \E uid \in Logins, pwd \in Senhas : Entrar(s, uid, pwd)
    \/ \E target \in {"leitura", "cadastros"} : Navegar(s, target)
    \/ Sair(s)
    \/ SalvarAgora(s)
    \/ \E uid \in NovosLogins, role \in Papeis, ativo \in BOOLEAN,
          pair \in SenhaPairs, salt \in Salts :
           NovoUsuario(s, uid, role, ativo, pair[1], pair[2], salt)
    \/ \E rec \in listar_usuarios(s), role \in Papeis, ativo \in BOOLEAN :
           SalvarAlteracoes(s, rec, rec.nome, role, ativo)
    \/ \E rec \in listar_usuarios(s), pair \in NovasSenhas, salt \in Salts :
           ResetarSenha(s, rec, pair[1], pair[2], salt)
    \/ \E rec \in listar_usuarios(s) : RemoverUsuario(s, rec)

\* one browser, from the first run on
NextUsers == Office("s1")

SpecUsers == Init /\ [][NextUsers]_vars

\* ------------------------------------------------- long labels
\* labels of more than CODE_LEN characters, with separators, and labels of
\* separators only
Etiquetas ==
    {<<>>,
     <<"-", " ">>,
     <<" ", "A", "B", "-", "1", "2", " ", "3", "4", "!", "5", "6", "7", "8", "9", "0", "Z">>,
     <<"A", "B", "1", "2", "3", "4", "5", "6", "7", "8", "/", "y">>,
     <<"a", "b", "1", "2", "3", "4", "5", "6", "7", "8", "9">>}

\* an operator scanning such labels on both screens, a supervisor at hand
Balcao(s) ==
    \/ Entrar(s, <<"c">>, <<"p">>)
    \/ \E target \in {"leitura", "varios"} : Navegar(s, target)
    \/ \E t \in Etiquetas, p \in Etiquetas : SubmitLeitura(s, t, p)
    \/ \E t \in Etiquetas, p \in Etiquetas : SubmitVarios(s, t, p)
    \/ Concluir(s, <<" ", "b">>, <<"p">>, <<" ", "r">>)
    \/ Cancelar(s)
    \/ RegistrarDado(s)

NextBalcao == Balcao("s1")

SpecBalcao == InitStaff /\ [][NextBalcao]_vars

\* -------------------------------------------------- the first run
\* what a visitor of the first run, and whoever has logged in, can do
Porta(s) ==
    \/ \E pair \in SenhaPairs, salt \in Salts : CriarAdmin(s, <<"a">>, pair[1], pair[2], salt)
    \/ \E uid \in {<<"a">>, <<"x">>}, pwd \in Senhas : Entrar(s, uid, pwd)
    \/ \E target \in {"leitura", "varios"} : Navegar(s, target)
    \/ Sair(s)
    \/ SalvarAgora(s)
    \/ \E p \in Pedidos : SubmitLeitura(s, <<"A", "-">>, p)
    \/ SubmitVarios(s, <<"A", "-">>, <<" ", "A">>)
    \/ \E a \in {<<<<"a">>, <<"p">>, <<" ", "r">>>>, <<<<"x">>, <<"p">>, <<" ", "r">>>>} :
           Concluir(s, a[1], a[2], a[3])
    \/ Cancelar(s)
    \/ RegistrarDado(s)
    \/ ErroInserir(s)

\* two browsers on an empty store
NextGate == Porta("s1") \/ Porta("s2")

SpecGate == Init /\ [][NextGate]_vars

\* ------------------------------------------------- the users' names
\* the field "Nome" of a listed user: as it is shown, or a new name typed
NovosNomes(rec) == {rec.nome, <<"n", " ">>}

\* the admin of the shop floor edits the first users of the list
Cadastro(s) ==
    \/ Entrar(s, <<"a">>, <<"p">>)
    \/ Navegar(s, "cadastros")
    \/ Sair(s)
    \/ \E rec \in {u \in listar_usuarios(s) : u.id <= MaxUserId} :
           \E nome \in NovosNomes(rec), role \in Papeis, ativo \in BOOLEAN :
               SalvarAlteracoes(s, rec, nome, role, ativo)

NextCadastro == Cadastro("s1")

SpecCadastro == InitStaff /\ [][NextCadastro]_vars

\* ---------------------------------------------------------- a text
\* characters a scanner or a keyboard sends
Alfabeto == {"A", "b", "1", "-", " "}

\* the texts of n characters
RECURSIVE TextosDe(_)
TextosDe(n) ==
    IF n = 0 THEN {<<>>} ELSE {Append(x, c) : x \in TextosDe(n - 1), c \in Alfabeto}

Textos == UNION {TextosDe(n) : n \in 0..MaxTexto}

\* the bipador sends "AB-12 34!!"
Exemplo == <<"A", "B", "-", "1", "2", " ", "3", "4", "!", "!">>

\* a text and a max_len, before the first call of sanitize_code
InitCodigo ==
    /\ usuarios = Staff
    /\ seq_usuarios = 5
    /\ arquivo = Atual
    /\ codigo \in {[code |-> x, max_len |-> m, saida |-> x, n |-> 0] :
                       x \in Textos, m \in 0..(MaxTexto + 1)}
                   \cup {[code |-> Exemplo, max_len |-> CODE_LEN, saida |-> Exemplo, n |-> 0]}
    /\ InitSessions

\* sanitize_code is called on the text, and again on what it has returned
Sanitizar ==
    /\ codigo.n < 2
    /\ codigo' = [codigo EXCEPT !.saida = sanitize_code(@, codigo.max_len), !.n = @ + 1]
    /\ UNCHANGED <<dbVars, uiVars, snapshot, agora, arquivo, out>>

NextCodigo == Sanitizar

SpecCodigo == InitCodigo /\ [][NextCodigo]_vars

\* ------------------------------------------------ an older database
\* a row of an older table: a value in each column the table has
Amostra(cols) == [c \in cols |-> IF c \in {"id", "divergencia", "ativo"} THEN 1 ELSE <<"x">>]

\* no table, or a table of one row that lacks some of the columns beside id
Tabelas(cols) ==
    {NoTable} \cup
    {[cols |-> {"id"} \cup S, rows |-> <<Amostra({"id"} \cup S)>>] : S \in SUBSET (cols \ {"id"})}

\* DB_PATH names a file that an older version of the program has written
InitArquivo ==
    /\ usuarios = {}
    /\ seq_usuarios = 0
    /\ arquivo \in [registros : Tabelas(ColunasRegistros), usuarios : Tabelas(ColunasUsuarios)]
    /\ codigo = NoCodigo
    /\ InitSessions

\* sessions start, one after the other, on the same file
NextSchema == \E s \in Sessions : Conectar(s)

SpecSchema == InitArquivo /\ [][NextSchema]_vars

\* ------------------------------------------------------------ claims
\* the verdict of the divergence policy for the sanitized codes t and o on
\* screen ctx, against the entries of log
Policy(ctx, t, o, log) ==
    IF t = <<>> \/ o = <<>> THEN "REJECT_INCOMPLETE"
    ELSE IF /\ t = o
            /\ ~\E i \in 1..Len(log) : /\ log[i].tipo_tela = ctx
                                       /\ log[i].transporte = t
                                       /\ log[i].pedido = o
    THEN "ACCEPT"
    ELSE "REQUIRE_OVERRIDE"

\* what a submitted scan of session s has led to
Shown(s) ==
    IF call[s] # NoCall /\ ~call[s].divergencia THEN "ACCEPT"
    ELSE IF dialog[s] # NoDialog THEN "REQUIRE_OVERRIDE"
    ELSE "REJECT_INCOMPLETE"

\* the codes a scan screen works with
Sanitized(raw) == sanitize_code(Strip(raw), CODE_LEN)

Authorizer(sid, spw) ==
    \E u \in usuarios :
        /\ u.uid = Strip(sid)
        /\ u.ativo = 1
        /\ u.role \in {"supervisor", "admin"}
        /\ u.hash_hex = sha256(u.salt_hex \o spw)

\* the divergent entries of a log
Divergent(log) == SelectSeq(log, LAMBDA e : e.divergencia = 1)

\* C2: a submission in the override dialog leads to a divergent record only if
\* the login and password are those of an active supervisor or admin and the
\* reason is non-empty after trimming; a divergent record is written by no
\* other way than such a submission
C2_OverrideAuthorized ==
    [][\A s \in Sessions :
          /\ call'[s] # call[s] =>
                 \A a \in Attempts : LET sid == a[1]  spw == a[2]  motivo == a[3] IN
                     Concluir(s, sid, spw, motivo) =>
                         Authorizer(sid, spw) /\ Strip(motivo) # <<>>
          /\ call'[s] # call[s] /\ call'[s].divergencia =>
                 \E a \in Attempts : Concluir(s, a[1], a[2], a[3])
          /\ Divergent(RecordLog') # Divergent(RecordLog) =>
                 \E r \in Sessions : call[r].divergencia /\ RegistrarDado(r)]_vars

\* an override has been recorded
C2_Witness ==
    /\ Divergent(RecordLog) # <<>>
    /\ out = <<"s1", "Divergencia liberada com sucesso!">>

\* the entry append_row stores for a call of registrar_dado
EntryOf(c) ==
    [data_hora |-> c.data_hora,
     usuario |-> c.usuario, tipo_tela |-> c.tipo_tela,
     transporte |-> c.transporte, pedido |-> c.pedido,
     divergencia |-> IF c.divergencia THEN 1 ELSE 0,
     supervisor_liberou |-> c.supervisor_liberou,
     motivo_divergencia |-> c.motivo_divergencia]

\* C3: a direct ACCEPT appends exactly one entry with divergence=false, the
\* session user and the scanned context and codes; a successful override
\* appends exactly one entry with divergence=true, the same context and codes,
\* the login id of the authenticated authorizer and the trimmed reason; every
\* other step appends nothing
C3_OneRecordPerAttempt ==
    [][\A s \in Sessions :
          /\ call'[s] # call[s] => \A t \in Transportes, o \in Pedidos :
                 /\ SubmitLeitura(s, t, o) /\ call'[s] # NoCall =>
                        call'[s] = [data_hora |-> strftime(agora, FmtDataHora),
                                    usuario |-> user[s].uid, tipo_tela |-> "LEITURA",
                                    transporte |-> Sanitized(t), pedido |-> Sanitized(o),
                                    divergencia |-> FALSE, supervisor_liberou |-> <<>>,
                                    motivo_divergencia |-> <<>>]
                 /\ SubmitVarios(s, t, o) /\ call'[s] # NoCall =>
                        call'[s] = [data_hora |-> strftime(agora, FmtDataHora),
                                    usuario |-> user[s].uid, tipo_tela |-> "VARIOS",
                                    transporte |-> Sanitized(t), pedido |-> Sanitized(o),
                                    divergencia |-> FALSE, supervisor_liberou |-> <<>>,
                                    motivo_divergencia |-> <<>>]
          /\ call'[s] # call[s] =>
                 \A a \in Attempts : LET sid == a[1]  spw == a[2]  motivo == a[3] IN
                 Concluir(s, sid, spw, motivo) /\ call'[s] # NoCall =>
                     call'[s] = [data_hora |-> strftime(agora, FmtDataHora),
                                 usuario |-> user[s].uid, tipo_tela |-> dialog[s].origem,
                                 transporte |-> dialog[s].transporte,
                                 pedido |-> dialog[s].pedido,
                                 divergencia |-> TRUE,
                                 supervisor_liberou |-> autenticar(s, sid, spw).uid,
                                 motivo_divergencia |-> Strip(motivo)]
          /\ RegistrarDado(s) => RecordLog' = Append(RecordLog, EntryOf(call[s]))
          /\ RecordLog' # RecordLog => \E r \in Sessions : RegistrarDado(r)]_vars

\* C4: every entry of the record log whose divergence flag is set has a
\* non-empty authorizing login and a non-empty reason
C4_DivergentHasAuthorizerAndReason ==
    \A i \in 1..Len(RecordLog) :
        RecordLog[i].divergencia = 1 =>
            /\ RecordLog[i].supervisor_liberou # <<>>
            /\ RecordLog[i].motivo_divergencia # <<>>

\* C5: an override submission whose login and password are not those of an
\* active supervisor or admin, or whose reason is empty after trimming, leaves
\* the dialog open on the same pending codes and screen, writes nothing to the
\* record log nor to the batch list, and submit and cancel stay possible
C5_FailedOverrideStays ==
    [][\A s \in Sessions : dialog[s] # NoDialog =>
        \A a \in Attempts : LET sid == a[1]  spw == a[2]  motivo == a[3] IN
          /\ Concluir(s, sid, spw, motivo)
          /\ ~Authorizer(sid, spw) \/ Strip(motivo) = <<>>
          => /\ dialog'[s] = dialog[s]
             /\ dialog'[s] # NoDialog
             /\ call'[s] = NoCall
             /\ RecordLog' = RecordLog
             /\ volumes' = volumes
             /\ vol_count' = vol_count]_vars

\* a refused submission, the dialog still open
C5_Witness ==
    /\ out = <<"s1", "Credenciais invalidas ou papel insuficiente">>
    /\ dialog["s1"] # NoDialog

\* C6: no step that leaves an override pending, from the divergent scan on,
\* changes the record log, the batch list or the batch counter, and cancel
\* changes none of them either and leaves no dialog and no pending codes: they
\* are after cancel what they were before the divergent scan
C6_CancelPersistsNothing ==
    [][\A s \in Sessions :
          /\ (dialog'[s] # NoDialog /\ call'[s] = NoCall) \/ Cancelar(s) =>
                 /\ RecordLog' = RecordLog
                 /\ committed' = committed
                 /\ volumes' = volumes
                 /\ vol_count' = vol_count
          /\ Cancelar(s) => dialog'[s] = NoDialog /\ call'[s] = NoCall]_vars

\* an override on screen VARIOS was cancelled with volumes in the batch list
C6_Witness ==
    /\ out = <<"s1", "Cancelar">>
    /\ page["s1"] = "varios"
    /\ volumes["s1"] # <<>>
    /\ Idle("s1")

\* among the users the connection of session s reads, an active one has the
\* login uid, trimmed, and the password pwd
AuthOk(s, uid, pwd) ==
    \E u \in Usuarios(s) :
        /\ u.uid = Strip(uid)
        /\ u.ativo = 1
        /\ u.hash_hex = sha256(u.salt_hex \o pwd)

\* an active user has the login uid, as given, and the password pwd
AuthOkExact(uid, pwd) ==
    \E u \in usuarios :
        /\ u.uid = uid
        /\ u.ativo = 1
        /\ u.hash_hex = sha256(u.salt_hex \o pwd)

\* the password pwd verifies against the row of user id
Verifies(id, pwd) ==
    \E u \in usuarios : u.id = id /\ u.hash_hex = sha256(u.salt_hex \o pwd)

C7_BootstrapGate ==
    [][(~\E u \in usuarios : u.role = "admin" /\ u.ativo = 1) =>
          /\ RecordLog' = RecordLog
          /\ usuarios' # usuarios =>
                 \E s \in Sessions, uid \in NovosLogins, pair \in SenhaPairs, salt \in Salts :
                     CriarAdmin(s, uid, pair[1], pair[2], salt)]_vars

\* C9: creating a user whose login, trimmed, is the login of a user of the
\* store fails with the duplicate-login error and leaves the users table
\* unchanged; no two users of the store have the same login
C9_DuplicateLogin ==
    [][/\ \A s \in Sessions : Admin(s) =>
             \A uid \in LoginsExistentes :
                 /\ NovoUsuario(s, uid, "user", TRUE, <<"p">>, <<"p">>, <<"s1">>)
                 /\ \E u \in usuarios : u.uid = Strip(uid)
                 => /\ out' = <<s, "Login ja existe.">>
                    /\ usuarios' = usuarios
       /\ \A u1 \in usuarios', u2 \in usuarios' : u1.uid = u2.uid => u1 = u2]_vars

\* a is an initial segment of b
IsPrefix(a, b) == Len(a) <= Len(b) /\ SubSeq(b, 1, Len(a)) = a

\* C10: every step leaves the record log, and its committed part, as it was
\* or extends it at the end; no entry is changed or removed
C10_AppendOnly ==
    [][/\ IsPrefix(RecordLog, RecordLog')
       /\ IsPrefix(committed, committed')]_vars

\* committed entries and, after them, entries a session has not committed
C10_Witness ==
    /\ committed # <<>>
    /\ \E s \in Sessions : pending[s] # <<>>

\* C11: right after "Sair" or "Salvar agora" in a session no entry appended by
\* that session is uncommitted: the entries it had appended are committed, in
\* order, and the connection of every session reads them
C11_FlushOnExit ==
    [][\A s \in Sessions :
          Sair(s) \/ SalvarAgora(s) =>
              /\ pending'[s] = <<>>
              /\ committed' = committed \o pending[s]
              /\ \A r \in Sessions : IsPrefix(committed \o pending[s], View(r)')]_vars

\* C12: in every interleaving of two sessions an append issued by a session
\* succeeds, also while the other session holds entries it has not committed:
\* every call of registrar_dado ends with its entry appended to the record log
C12_AppendSucceeds ==
    [][\A s \in Sessions :
          call[s] # NoCall /\ call'[s] = NoCall =>
              RecordLog' = Append(RecordLog, EntryOf(call[s]))]_vars

\* C13: when append has succeeded in a session, exists for the triple of the
\* entry returns true in that session at once, before any commit, and what
\* exists has returned true for in a session it returns true for in every
\* later state
C13_ReadYourWrites ==
    [][\A s \in Sessions :
          /\ call[s] # NoCall /\ RegistrarDado(s) =>
                 \A e \in {call[s]} :
                     existe_registro(e.transporte, e.pedido, e.tipo_tela, s)'
          /\ \A e \in {View(s)[i] : i \in 1..Len(View(s))} :
                 existe_registro(e.transporte, e.pedido, e.tipo_tela, s)']_vars

\* a session has re-scanned a pair it recorded and has not committed: exists
\* returned true and the scan waits in the override dialog
C13_Witness ==
    \E s \in Sessions :
        /\ committed = <<>>
        /\ Len(pending[s]) = 1
        /\ dialog[s] = [transporte |-> pending[s][1].transporte,
                        pedido |-> pending[s][1].pedido, origem |-> "LEITURA"]
        /\ dialog[s].transporte = dialog[s].pedido

\* the number the n decimal digits of ts from position i stand for
Num(ts, i, n) ==
    IF n = 2 THEN 10 * (CodePoint[ts[i]] - 48) + (CodePoint[ts[i + 1]] - 48)
    ELSE 1000 * (CodePoint[ts[i]] - 48) + 100 * (CodePoint[ts[i + 1]] - 48)
         + 10 * (CodePoint[ts[i + 2]] - 48) + (CodePoint[ts[i + 3]] - 48)

\* an instant as a number that grows with time (seconds, years from 2000,
\* months of 31 days)
Chron(y, m, d, hh, mm, ss) ==
    (((((y - 2000) * 12 + m) * 31 + d) * 24 + hh) * 60 + mm) * 60 + ss

\* the instant a timestamp "YYYY-MM-DD HH:MM:SS" names
Quando(ts) ==
    Chron(Num(ts, 1, 4), Num(ts, 6, 2), Num(ts, 9, 2),
          Num(ts, 12, 2), Num(ts, 15, 2), Num(ts, 18, 2))

\* the instant ts lies in [dt_ini 00:00:00, dt_fim 23:59:59]
Covers(dt_ini, dt_fim, ts) ==
    /\ Chron(dt_ini.year, dt_ini.month, dt_ini.day, 0, 0, 0) <= Quando(ts)
    /\ Quando(ts) <= Chron(dt_fim.year, dt_fim.month, dt_fim.day, 23, 59, 59)

Range(seq) == {seq[i] : i \in 1..Len(seq)}

Count(e, seq) == Cardinality({i \in 1..Len(seq) : seq[i] = e})

\* res holds exactly the entries of log in the date range, of the screen tipo
\* unless tipo is TODAS, divergent if apenas_div, each as often as log holds
\* it, in ascending order of time
QueryIs(res, log, dt_ini, dt_fim, tipo, apenas_div) ==
    /\ \A i \in 1..(Len(res) - 1) :
           Quando(res[i].data_hora) <= Quando(res[i + 1].data_hora)
    /\ \A e \in Range(log) \cup Range(res) :
           Count(e, res) =
               IF /\ Covers(dt_ini, dt_fim, e.data_hora)
                  /\ tipo # "TODAS" => e.tipo_tela = tipo
                  /\ apenas_div => e.divergencia = 1
               THEN Count(e, log)
               ELSE 0

\* C14 as stated: query returns exactly the entries of the record log whose
\* timestamp lies in [from 00:00:00, to 23:59:59], that carry the context tag
\* when a filter other than TODAS is given and are divergent when
\* divergenceOnly is set, in ascending order of timestamp
C14_QueryOnLog ==
    \A s \in Sessions : page[s] = "exportar" =>
        \A dt_ini \in Datas, dt_fim \in Datas, tipo \in Tipos, apenas_div \in BOOLEAN :
            QueryIs(query_export(s, dt_ini, dt_fim, tipo, apenas_div),
                    RecordLog, dt_ini, dt_fim, tipo, apenas_div)

\* C14 amended: query returns exactly those entries among the entries that
\* the connection of the querying session reads, in ascending order of
\* timestamp
C14_QueryOnView ==
    \A s \in Sessions : page[s] = "exportar" =>
        \A dt_ini \in Datas, dt_fim \in Datas, tipo \in Tipos, apenas_div \in BOOLEAN :
            QueryIs(query_export(s, dt_ini, dt_fim, tipo, apenas_div),
                    View(s), dt_ini, dt_fim, tipo, apenas_div)

\* an export that found entries, over two entries that are not in the order
\* of their timestamps
C14_Witness ==
    \E s \in Sessions :
        /\ page[s] = "exportar"
        /\ out = <<s, "Baixar CSV">>
        /\ Len(View(s)) = 2
        /\ Quando(View(s)[2].data_hora) < Quando(View(s)[1].data_hora)

\* C15 as stated: the entry appended is the entry handed to append, and a
\* query with a date range covering the timestamp of an entry of the record
\* log returns it, every field equal
C15_RoundTrip ==
    /\ [][\A s \in Sessions :
             RegistrarDado(s) => RecordLog'[Len(RecordLog')] = EntryOf(call[s])]_vars
    /\ [](\A r \in Sessions, dt_ini \in Datas, dt_fim \in Datas :
             \A i \in 1..Len(RecordLog) :
                 Covers(dt_ini, dt_fim, RecordLog[i].data_hora) =>
                     RecordLog[i] \in Range(query_export(r, dt_ini, dt_fim, "TODAS", FALSE)))

\* C15 amended: the entry appended is the entry handed to append, the
\* connection of the session that appended it reads it from then on, and a
\* query of a session with a date range covering the timestamp of an entry
\* its connection reads returns it, every field equal
C15_RoundTripOwn ==
    /\ [][\A s \in Sessions :
             /\ RegistrarDado(s) => View(s)'[Len(View(s)')] = EntryOf(call[s])
             /\ IsPrefix(View(s), View(s)')]_vars
    /\ [](\A r \in Sessions, dt_ini \in Datas, dt_fim \in Datas :
             \A i \in 1..Len(View(r)) :
                 Covers(dt_ini, dt_fim, View(r)[i].data_hora) =>
                     View(r)[i] \in Range(query_export(r, dt_ini, dt_fim, "TODAS", FALSE)))

\* a session exports the entry it has appended and not committed
C15_Witness ==
    \E s \in Sessions :
        /\ page[s] = "exportar"
        /\ out = <<s, "Baixar CSV">>
        /\ committed = <<>>
        /\ pending[s] # <<>>

\* C16: in every reachable state the batch counter of a session is the number
\* of items of its batch list and the items carry the numbers 1, 2, ..., n in
\* insertion order; "Zerar Lista" empties the list and clears the counter, and
\* an item added to the empty list gets the number 1
C16_BatchNumbering ==
    /\ [](\A s \in Sessions :
             /\ vol_count[s] = Len(volumes[s])
             /\ \A i \in 1..Len(volumes[s]) : volumes[s][i].n = i)
    /\ [][\A s \in Sessions :
             /\ ZerarLista(s) => volumes'[s] = <<>> /\ vol_count'[s] = 0
             /\ volumes[s] = <<>> /\ volumes'[s] # <<>> =>
                    Len(volumes'[s]) = 1 /\ volumes'[s][1].n = 1]_vars

\* two items in the batch list, the second one added by an override
C16_Witness ==
    /\ Len(volumes["s1"]) = 2
    /\ volumes["s1"][2].divergente
    /\ out = <<"s1", "Divergencia liberada com sucesso!">>

\* the add_item calls of a session so far: each follows the append of one
\* VARIOS entry
Adds == Cardinality({i \in 1..Len(RecordLog) : RecordLog[i].tipo_tela = "VARIOS"})

\* C17 as stated: no two add_item calls of a session return the same number,
\* also across "Zerar Lista": the numbers start at 1 and go up by one, so the
\* call after k calls returns a number above k
C17_NeverReused ==
    [][\A s \in Sessions :
          Len(volumes'[s]) = Len(volumes[s]) + 1 =>
              volumes'[s][Len(volumes'[s])].n > Adds]_vars

\* C17 amended: between two resets no two add_item calls return the same
\* number: the number returned is the number of no item of the batch list;
\* after "Zerar Lista" the numbering starts again at 1
C17_NeverReusedInBatch ==
    [][\A s \in Sessions :
          /\ Len(volumes'[s]) = Len(volumes[s]) + 1 =>
                 /\ SubSeq(volumes'[s], 1, Len(volumes[s])) = volumes[s]
                 /\ \A i \in 1..Len(volumes[s]) :
                        volumes[s][i].n # volumes'[s][Len(volumes'[s])].n
          /\ ZerarLista(s) => vol_count'[s] = 0
          /\ vol_count[s] = 0 /\ volumes'[s] # volumes[s] =>
                 volumes'[s][Len(volumes'[s])].n = 1]_vars

\* a second batch: two VARIOS entries are recorded and the list holds one
\* item, numbered 1
C17_Witness ==
    /\ Adds = 2
    /\ Len(volumes["s1"]) = 1
    /\ volumes["s1"][1].n = 1
    /\ out = <<"s1", "Registrado com sucesso">>

\* C18: after "Sair" the batch list of the session is empty and its batch
\* counter is 0
C18_BatchDiscardedOnLogout ==
    [][\A s \in Sessions :
          Sair(s) => volumes'[s] = <<>> /\ vol_count'[s] = 0]_vars

\* C19 as stated: a submission with an empty transport or order code after
\* sanitization, on either screen, writes no record, leaves the batch list and
\* its counter as they are, and leaves both fields of the scan form empty
C19_RejectResets ==
    [][\A s \in Sessions :
          page[s] \in {"leitura", "varios"} /\ Idle(s) =>
              \A t \in Transportes, o \in Pedidos :
                  /\ SubmitLeitura(s, t, o) \/ SubmitVarios(s, t, o)
                  /\ Sanitized(t) = <<>> \/ Sanitized(o) = <<>>
                  => /\ RecordLog' = RecordLog
                     /\ call'[s] = NoCall
                     /\ volumes' = volumes /\ vol_count' = vol_count
                     /\ campos'[s] = Vazio]_vars

\* C19 amended: such a submission writes no record, opens no dialog, leaves the
\* batch list and its counter as they are, and leaves in the two fields the
\* texts that were submitted
C19_RejectKeepsFields ==
    [][\A s \in Sessions :
          page[s] \in {"leitura", "varios"} /\ Idle(s) =>
              \A t \in Transportes, o \in Pedidos :
                  /\ SubmitLeitura(s, t, o) \/ SubmitVarios(s, t, o)
                  /\ Sanitized(t) = <<>> \/ Sanitized(o) = <<>>
                  => /\ RecordLog' = RecordLog
                     /\ call'[s] = NoCall /\ dialog'[s] = NoDialog
                     /\ volumes' = volumes /\ vol_count' = vol_count
                     /\ campos'[s] = <<t, o>>]_vars

\* with one volume in the batch, a scan without transport code has just been
\* refused on screen VARIOS
C19_Witness ==
    \E s \in Sessions :
        /\ out = <<s, "Leitura invalida.">>
        /\ Sanitized(campos[s][1]) = <<>> /\ campos[s][2] # <<>>
        /\ Len(volumes[s]) = 1 /\ vol_count[s] = 1

\* C20: when the INSERT of append_row fails while a scan is being recorded,
\* directly or from the override dialog, the error is displayed, no entry is
\* added to the record log, the batch list, its counter and the last-reading
\* indicator are unchanged, the fields of the scan form still hold the code pair
\* of the attempt, and the attempt can be submitted again: the form is on
\* screen, or the override dialog is still open with the same codes
C20_StorageErrorKeepsAttempt ==
    [][\A s \in Sessions :
          call[s] # NoCall /\ ErroInserir(s) =>
              /\ out' = <<s, "Erro ao inserir na tabela 'registros'">>
              /\ RecordLog' = RecordLog
              /\ volumes' = volumes /\ vol_count' = vol_count
              /\ ult_leitura' = ult_leitura
              /\ campos'[s] = campos[s]
              /\ Sanitized(campos'[s][1]) = call[s].transporte
              /\ Sanitized(campos'[s][2]) = call[s].pedido
              /\ call'[s] = NoCall
              /\ page'[s] = page[s]
              /\ page'[s] = (IF call[s].tipo_tela = "LEITURA" THEN "leitura" ELSE "varios")
              /\ dialog'[s] = dialog[s]
              /\ call[s].divergencia =>
                     /\ dialog'[s].transporte = call[s].transporte
                     /\ dialog'[s].pedido = call[s].pedido]_vars

\* the INSERT of a release from the override dialog has just failed: the dialog
\* is open with the codes of the fields, and nothing was recorded for the session
C20_Witness ==
    \E s \in Sessions :
        /\ out = <<s, "Erro ao inserir na tabela 'registros'">>
        /\ call[s] = NoCall
        /\ dialog[s] = [transporte |-> Sanitized(campos[s][1]),
                        pedido |-> Sanitized(campos[s][2]), origem |-> "LEITURA"]
        /\ dialog[s].transporte # dialog[s].pedido
        /\ lock \notin {"free", s}
        /\ ult_leitura[s] = <<"-">>
\* the rows of table tab before are its rows after, in the columns it had
RowsKept(antes, depois) ==
    /\ Len(depois.rows) = Len(antes.rows)
    /\ \A i \in DOMAIN antes.rows : \A c \in antes.cols : depois.rows[i][c] = antes.rows[i][c]

\* C21: opening the store on a file whose tables lack any subset of the
\* columns beside id succeeds and adds exactly the missing columns, every old
\* row of registros reading 0 in an added divergencia and '' in an added
\* supervisor_liberou or motivo_divergencia; every row keeps its values; a
\* file in the current schema is left unchanged
C21_SchemaEvolution ==
    [][\A s \in Sessions :
          Conectar(s) =>
              /\ out'[2] # "no such column"
              /\ arquivo'.registros.cols = ColunasRegistros
              /\ arquivo'.usuarios.cols = ColunasUsuarios
              /\ RowsKept(arquivo.registros, arquivo'.registros)
              /\ RowsKept(arquivo.usuarios, arquivo'.usuarios)
              /\ \A i \in DOMAIN arquivo.registros.rows :
                     /\ "divergencia" \notin arquivo.registros.cols =>
                            arquivo'.registros.rows[i]["divergencia"] = 0
                     /\ "supervisor_liberou" \notin arquivo.registros.cols =>
                            arquivo'.registros.rows[i]["supervisor_liberou"] = <<>>
                     /\ "motivo_divergencia" \notin arquivo.registros.cols =>
                            arquivo'.registros.rows[i]["motivo_divergencia"] = <<>>
              /\ (/\ arquivo.registros.cols = ColunasRegistros
                  /\ arquivo.usuarios.cols = ColunasUsuarios) => arquivo' = arquivo]_vars

\* C22: what sanitize_code has returned it returns unchanged; the text it
\* returns is the text it was given without the characters outside
\* [0-9A-Za-z], cut to max_len; "AB-12 34!!" with max_len 10 gives "AB1234"
C22_SanitizeIdempotent ==
    /\ [][Sanitizar /\ codigo.n >= 1 => codigo'.saida = codigo.saida]_vars
    /\ [](codigo.n >= 1 =>
             /\ \A i \in DOMAIN codigo.saida : codigo.saida[i] \in Alnum
             /\ Len(codigo.saida) = Min(codigo.max_len,
                                          Cardinality({i \in DOMAIN codigo.code : codigo.code[i] \in Alnum}))
             /\ codigo.code = Exemplo /\ codigo.max_len = CODE_LEN =>
                    codigo.saida = <<"A", "B", "1", "2", "3", "4">>)

\* sanitize_code was called twice on a text of which it has removed a
\* character and cut another
C22_Witness ==
    /\ codigo.n = 2
    /\ codigo.max_len > 0
    /\ Len(codigo.saida) = codigo.max_len
    /\ Len(codigo.code) = codigo.max_len + 2
    /\ ~IsAlnum(codigo.code[1])

\* C23: "Salvar alteracoes" on a listed user sets the name, the role and the
\* active flag of the user with that id; its login, salt, hash and creation
\* timestamp and every other user are as before, and the passwords that
\* verified against the user's row still do
C23_UpdateKeepsCredentials ==
    [][\A s \in Sessions :
          out' = <<s, "Alteracoes salvas.">> =>
              \A rec \in listar_usuarios(s), role \in Papeis, ativo \in BOOLEAN :
                  \A nome \in NovosNomes(rec) :
                      SalvarAlteracoes(s, rec, nome, role, ativo) =>
                          /\ {u \in usuarios' : u.id # rec.id} = {u \in usuarios : u.id # rec.id}
                          /\ \A u \in usuarios :
                                 u.id = rec.id =>
                                     usuarios' \ usuarios \subseteq
                                         {[u EXCEPT !.nome = Strip(nome), !.role = role,
                                                    !.ativo = IF ativo THEN 1 ELSE 0]}
                          /\ Cardinality(usuarios') = Cardinality(usuarios)
                          /\ \A pwd \in Senhas : Verifies(rec.id, pwd) <=> Verifies(rec.id, pwd)']_vars

\* a user was renamed and deactivated while another user exists
C23_Witness ==
    /\ out = <<"s1", "Alteracoes salvas.">>
    /\ \E u \in usuarios, v \in usuarios :
           /\ u.id # v.id
           /\ u.nome = <<"n">>
           /\ u.ativo = 0
           /\ v.nome # <<"n">>

\* C24: on an empty store, as long as no user was created no session is
\* logged in, no login succeeds, no entry is in the record log and none is
\* being written; the first user created is an active user with role admin
C24_FirstRun ==
    /\ [](seq_usuarios = 0 =>
             /\ usuarios = {}
             /\ RecordLog = <<>>
             /\ \A s \in Sessions : user[s] = NoUser /\ call[s] = NoCall /\ dialog[s] = NoDialog)
    /\ [][seq_usuarios = 0 /\ usuarios' # usuarios =>
             /\ \E u \in usuarios' : usuarios' = {u} /\ u.role = "admin" /\ u.ativo = 1
             /\ out'[2] = "Administrador criado. Faca login."]_vars

\* the first admin was created while the other session had the form open,
\* and nothing was recorded before
C24_Witness ==
    /\ seq_usuarios = 1
    /\ out = <<"s2", "Administrador criado. Faca login.">>
    /\ \A s \in Sessions : user[s] = NoUser
    /\ RecordLog = <<>>

\* what the Cadastros page displays after a mutation of the users table
Mutacoes == {"Usuario criado!", "Alteracoes salvas.", "Senha redefinida.", "Usuario removido."}

\* C26: whenever a session creates, updates, resets or removes a user on the
\* Cadastros page, the user of that session is at that moment a user of the
\* store who is active and has role admin
C26_AdminOnly ==
    [][\A s \in Sessions :
          out' = <<s, out'[2]>> /\ out'[2] \in Mutacoes =>
              \E u \in usuarios : u.id = user[s].id /\ u.ativo = 1 /\ u.role = "admin"]_vars

\* a code as the store holds it: not empty, of characters in [0-9A-Za-z]
\* only, of CODE_LEN characters at most
WellFormed(code) ==
    /\ code # <<>>
    /\ Len(code) <= CODE_LEN
    /\ \A i \in DOMAIN code : code[i] \in Alnum

\* C25: every entry of the record log has a transport code and an order code
\* that are non-empty, of characters in [0-9A-Za-z] only and at most 10
\* characters long, and the context tag LEITURA or VARIOS
C25_CodesWellFormed ==
    \A i \in 1..Len(RecordLog) :
        /\ WellFormed(RecordLog[i].transporte)
        /\ WellFormed(RecordLog[i].pedido)
        /\ RecordLog[i].tipo_tela \in {"LEITURA", "VARIOS"}

\* a label of more than 10 characters was recorded directly, cut to 10, and
\* a divergent pair of long labels by override
C25_Witness ==
    /\ Len(RecordLog) = 2
    /\ \E i \in 1..2, j \in 1..2 :
           /\ RecordLog[i].divergencia = 0
           /\ Len(RecordLog[i].transporte) = CODE_LEN
           /\ RecordLog[j].divergencia = 1
           /\ Len(RecordLog[j].pedido) = CODE_LEN
           /\ RecordLog[j].tipo_tela # RecordLog[i].tipo_tela

\* C27: the record log never holds two non-divergent entries of screen
\* LEITURA with the same transport code and the same order code, whichever
\* sessions have written them and whether or not they are committed
C27_NoDuplicateAccept ==
    \A i \in 1..Len(RecordLog), j \in 1..Len(RecordLog) :
        /\ i < j
        /\ RecordLog[i].tipo_tela = "LEITURA"
        /\ RecordLog[j].tipo_tela = "LEITURA"
        /\ RecordLog[i].divergencia = 0
        /\ RecordLog[j].divergencia = 0
        => \/ RecordLog[i].transporte # RecordLog[j].transporte
           \/ RecordLog[i].pedido # RecordLog[j].pedido
====
